---------------------------- MODULE Spec2Model ----------------------------
(***************************************************************************)
(* A model of the sexpr_parser crate (src/src/lib.rs): the Tokenizer, the  *)
(* Parser cursor primitives, the recursive-descent tree builder and the    *)
(* SexprTree queries.                                                      *)
(*                                                                         *)
(* A character is a one-character string, a String (text, token) is a      *)
(* sequence of characters, a Vec is a sequence.  Parser positions are      *)
(* 0-based as in the code: the current token is tokens[i + 1].             *)
(***************************************************************************)
EXTENDS Integers, Sequences, FiniteSets, TLC

VARIABLES
    src,      \* the text handed to tokenize / Parser::new / build_parse_tree
    tpos,     \* number of characters of src the tokenizer has consumed
    pending,  \* Tokenizer.pending
    tokens,   \* the Vec<String> being built by tokenize, then Parser.tokens
    i,        \* Parser.i
    op,       \* name of the last operation applied
    arg,      \* its argument
    ret,      \* its return value
    i0,       \* Parser.i before the last operation
    hist,     \* what earlier operations returned (history)
    stack     \* call stack of tree_help (step-wise parse)

vars == <<src, tpos, pending, tokens, i, op, arg, ret, i0, hist, stack>>

-----------------------------------------------------------------------------
(* Bounds of the model *)

\* longest input text
MaxLen == 5
\* longest input text parsed step by step
MaxParseLen == 6
\* longest input text handed to the cursor operations
MaxCursorLen == 4
\* how far past the end of the tokens advance / advance_by may move the cursor
MaxOver == 2
\* largest distance passed to advance_by / lookahead
MaxDist == 2

-----------------------------------------------------------------------------
(* Characters and strings *)

LPAREN == "("
RPAREN == ")"

\* Tokenizer::new("()"): the symbol set
symbols == {LPAREN, RPAREN}

\* a mutant of is_whitespace: only the space character
is_space_only(c) == c = " "

\* char::is_whitespace, on the characters of the model
is_whitespace(c) == c \in {" ", "\t", "\n"}

\* characters of the input texts: the two delimiters, a whitespace, a
\* lower-case letter and an upper-case letter
Alphabet == {LPAREN, RPAREN, " ", "a", "B"}

\* char::to_lowercase on the characters of the model
lower_char(c) == IF c = "A" THEN "a" ELSE IF c = "B" THEN "b" ELSE c

\* str::to_lowercase
to_lowercase(s) == [k \in 1..Len(s) |-> lower_char(s[k])]

StringsUpTo(n) == UNION {[1..m -> Alphabet] : m \in 0..n}

Inputs == StringsUpTo(MaxLen)

\* the texts the cursor operations are run on: no case to fold
ParseInputs == StringsUpTo(MaxParseLen)

CursorInputs == UNION {[1..m -> Alphabet \ {"B"}] : m \in 0..MaxCursorLen}

-----------------------------------------------------------------------------
(* Tokenizer.  Its state is [pending, tokens]: the field `pending` and the *)
(* local Vec `tokens` of tokenize.                                         *)

\* Tokenizer::new: pending empty (with the local `tokens = Vec::new()`)
TokenizerNew == [pending |-> <<>>, tokens |-> <<>>]

\* a mutant of add_pending: the pending text is pushed without case folding
add_pending_no_fold(st) ==
    IF Len(st.pending) > 0
    THEN [pending |-> <<>>, tokens |-> Append(st.tokens, st.pending)]
    ELSE st

\* Tokenizer::add_pending
add_pending(st) ==
    IF Len(st.pending) > 0
    THEN [pending |-> <<>>, tokens |-> Append(st.tokens, to_lowercase(st.pending))]
    ELSE st

\* a mutant of the closure: a symbol is pushed without flushing pending
tokenize_char_no_flush(st, c) ==
    IF c \in symbols
    THEN [st EXCEPT !.tokens = Append(st.tokens, <<c>>)]
    ELSE IF is_whitespace(c)
    THEN add_pending(st)
    ELSE [st EXCEPT !.pending = Append(st.pending, c)]

\* the closure of tokenize, applied to one character
tokenize_char(st, c) ==
    IF c \in symbols
    THEN LET f == add_pending(st)
         IN  [f EXCEPT !.tokens = Append(f.tokens, <<c>>)]
    ELSE IF is_whitespace(c)
    THEN add_pending(st)
    ELSE [st EXCEPT !.pending = Append(st.pending, c)]

RECURSIVE tokenize_from(_, _, _)
\* text.chars().for_each(closure), from character k on
tokenize_from(st, text, k) ==
    IF k > Len(text) THEN st
    ELSE tokenize_from(tokenize_char(st, text[k]), text, k + 1)

\* Tokenizer::tokenize: the tokenizer state when it returns; .tokens is returned
tokenize(st, text) == add_pending(tokenize_from(st, text, 1))

-----------------------------------------------------------------------------
(* Results: io::Result<T> *)

Ok(v) == [ok |-> TRUE, val |-> v]

Err(e) == [ok |-> FALSE, err |-> e]

\* errorize(format!("Token index '{}'; {} tokens available", index, len))
OutOfRange(index, len) == Err([kind |-> "OutOfRange", index |-> index, len |-> len])

\* errorize(format!("Token '{}' expected, token '{}' encountered at position {}", ..))
UnexpectedToken(expected, actual, pos) ==
    Err([kind |-> "UnexpectedToken", expected |-> expected, actual |-> actual, pos |-> pos])

\* no operation has returned yet
NoRet == [ok |-> FALSE, err |-> [kind |-> "none"]]

-----------------------------------------------------------------------------
(* SpecTok: tokenize, one character at a time *)

InitTok ==
    /\ src \in Inputs
    /\ tpos = 0
    /\ pending = TokenizerNew.pending
    /\ tokens = TokenizerNew.tokens
    /\ i = 0
    /\ op = "new"
    /\ arg = <<>>
    /\ ret = NoRet
    /\ i0 = 0
    /\ hist = <<>>
    /\ stack = <<>>

\* one call of the closure of tokenize
TokChar ==
    /\ op \in {"new", "char"}
    /\ tpos < Len(src)
    /\ LET st == tokenize_char([pending |-> pending, tokens |-> tokens], src[tpos + 1])
       IN  /\ pending' = st.pending
           /\ tokens' = st.tokens
    /\ tpos' = tpos + 1
    /\ op' = "char"
    /\ UNCHANGED <<src, i, arg, ret, i0, hist, stack>>

\* the end of tokenize: the last add_pending, and the return of tokens
TokReturn ==
    /\ op \in {"new", "char"}
    /\ tpos = Len(src)
    /\ LET st == add_pending([pending |-> pending, tokens |-> tokens])
       IN  /\ pending' = st.pending
           /\ tokens' = st.tokens
           /\ ret' = Ok(st.tokens)
    /\ op' = "tokenize"
    /\ UNCHANGED <<src, tpos, i, arg, i0, hist, stack>>

NextTok == TokChar \/ TokReturn

SpecTok == InitTok /\ [][NextTok]_vars

-----------------------------------------------------------------------------
(* What the tokens of a text are: its delimiter characters and its maximal *)
(* runs of characters that are neither whitespace nor delimiters.          *)

IsDelim(c) == c \in {LPAREN, RPAREN}

IsWordChar(c) == ~IsDelim(c) /\ ~is_whitespace(c)

WordRuns(text) ==
    {p \in (1..Len(text)) \X (1..Len(text)) :
        /\ p[1] <= p[2]
        /\ \A k \in p[1]..p[2] : IsWordChar(text[k])
        /\ (p[1] = 1 \/ ~IsWordChar(text[p[1] - 1]))
        /\ (p[2] = Len(text) \/ ~IsWordChar(text[p[2] + 1]))}

DelimPlaces(text) == {<<k, k>> : k \in {j \in 1..Len(text) : IsDelim(text[j])}}

Pieces(text) == WordRuns(text) \cup DelimPlaces(text)

PieceText(text, p) ==
    IF IsDelim(text[p[1]]) THEN <<text[p[1]]>>
    ELSE [k \in 1..(p[2] - p[1] + 1) |-> lower_char(text[p[1] + k - 1])]

ExpectedTokens(text) ==
    LET ps == Pieces(text)
        nth(k) == CHOOSE p \in ps : Cardinality({q \in ps : q[1] < p[1]}) = k - 1
    IN  [k \in 1..Cardinality(ps) |-> PieceText(text, nth(k))]

\* C5: when tokenize returns, the tokens are, in textual order, one verbatim
\* token per '(' or ')' and one lower-cased token per maximal run of other
\* non-whitespace characters; no token is empty or holds whitespace, no
\* longer token holds a delimiter, and pending is empty again.
C5_TokenizeExact ==
    op = "tokenize" =>
        /\ ret = Ok(ExpectedTokens(src))
        /\ tokens = ExpectedTokens(src)
        /\ pending = <<>>
        /\ \A k \in 1..Len(tokens) :
              /\ Len(tokens[k]) > 0
              /\ \A j \in 1..Len(tokens[k]) : ~is_whitespace(tokens[k][j])
              /\ Len(tokens[k]) > 1 => \A j \in 1..Len(tokens[k]) : ~IsDelim(tokens[k][j])

\* a text with delimiters, whitespace, upper case and a two-character run
C5_Witness ==
    /\ op = "tokenize"
    /\ src = <<"(", "a", "B", " ", ")">>
    /\ tokens = << <<"(">>, <<"a", "b">>, <<")">> >>
    /\ pending = <<>>

-----------------------------------------------------------------------------
(* Parser.  A parser value is [tokens, i].  An operation that takes        *)
(* &mut self yields [p |-> the parser afterwards, res |-> what it returns].*)

\* Parser::new
Parser_new(text) == [tokens |-> tokenize(TokenizerNew, text).tokens, i |-> 0]

\* Parser::finished
finished(p) == p.i = Len(p.tokens)

\* Parser::lookahead: tokens.get(index) is Some for index < tokens.len()
lookahead(p, distance) ==
    LET index == p.i + distance
    IN  IF index < Len(p.tokens) THEN Ok(p.tokens[index + 1])
        ELSE OutOfRange(index, Len(p.tokens))

\* Parser::token
token(p) == lookahead(p, 0)

\* Parser::advance_by
advance_by(p, distance) == [p EXCEPT !.i = p.i + distance]

\* Parser::advance
advance(p) == advance_by(p, 1)

\* a mutant of check: the position moves on a mismatch too
check_always_advance(p, target_token) ==
    LET actual == token(p)
    IN  IF ~actual.ok THEN [p |-> p, res |-> actual]
        ELSE IF actual.val = target_token THEN [p |-> advance(p), res |-> Ok(<<>>)]
        ELSE [p |-> advance(p), res |-> UnexpectedToken(target_token, actual.val, p.i)]

\* Parser::check; Ok(()) is Ok(<<>>)
check(p, target_token) ==
    LET actual == token(p)
    IN  IF ~actual.ok THEN [p |-> p, res |-> actual]
        ELSE IF actual.val = target_token THEN [p |-> advance(p), res |-> Ok(<<>>)]
        ELSE [p |-> p, res |-> UnexpectedToken(target_token, actual.val, p.i)]

\* Parser::at_close
at_close(p) ==
    LET t == token(p)
    IN  IF t.ok THEN Ok(t.val = <<RPAREN>>) ELSE t

\* a mutant of snag: the position moves before the token is read
snag_unchecked(p) ==
    LET t == token(p)
    IN  IF t.ok THEN [p |-> advance(p), res |-> Ok(t.val)] ELSE [p |-> advance(p), res |-> t]

\* a mutant of snag: the token is returned and the position stays
snag_no_advance(p) ==
    LET t == token(p)
    IN  IF t.ok THEN [p |-> p, res |-> Ok(t.val)] ELSE [p |-> p, res |-> t]

\* Parser::snag
snag(p) ==
    LET t == token(p)
    IN  IF t.ok THEN [p |-> advance(p), res |-> Ok(t.val)] ELSE [p |-> p, res |-> t]

RECURSIVE snag_symbols_loop(_, _)
\* a mutant of the loop: the closing delimiter is not consumed
snag_symbols_loop_keep_close(p, result) ==
    LET c == at_close(p)
    IN  IF ~c.ok THEN [p |-> p, res |-> c]
        ELSE IF ~c.val
        THEN LET s == snag(p)
             IN  IF ~s.res.ok THEN s
                 ELSE snag_symbols_loop(s.p, Append(result, s.res.val))
        ELSE [p |-> p, res |-> Ok(result)]

\* the while loop of snag_symbols and what follows it
snag_symbols_loop(p, result) ==
    LET c == at_close(p)
    IN  IF ~c.ok THEN [p |-> p, res |-> c]
        ELSE IF ~c.val
        THEN LET s == snag(p)
             IN  IF ~s.res.ok THEN s
                 ELSE snag_symbols_loop(s.p, Append(result, s.res.val))
        ELSE LET k == check(p, <<RPAREN>>)
             IN  IF ~k.res.ok THEN k ELSE [p |-> k.p, res |-> Ok(result)]

\* Parser::snag_symbols
snag_symbols(p) ==
    LET k == check(p, <<LPAREN>>)
    IN  IF ~k.res.ok THEN k ELSE snag_symbols_loop(k.p, <<>>)

-----------------------------------------------------------------------------
(* Spec: the public cursor operations, in any order, on a Parser built     *)
(* from any input.                                                         *)

\* the parser of the state
P == [tokens |-> tokens, i |-> i]

\* history kept for the cursor operations:
\*   walk: the number of operations so far if each was check(tokens[k]) for
\*         k = 0, 1, 2, .. in textual order, else -1
\*   prev: [i0, val] of the operation before the last one if that was a
\*         successful snag_symbols, else <<>>
Init ==
    /\ src = <<>>
    /\ tpos = 0
    /\ pending = <<>>
    /\ \E text \in CursorInputs :
          /\ tokens = Parser_new(text).tokens
          /\ i = Parser_new(text).i
    /\ op = "new"
    /\ arg = <<>>
    /\ ret = NoRet
    /\ i0 = 0
    /\ hist = [walk |-> 0, prev |-> <<>>]
    /\ stack = <<>>

\* the state after operation `name` with argument a left parser p2 and
\* returned r
Applied(name, a, p2, r, walk) ==
    /\ tokens' = p2.tokens
    /\ i' = p2.i
    /\ op' = name
    /\ arg' = a
    /\ ret' = r
    /\ i0' = i
    /\ hist' = [walk |-> walk,
                prev |-> IF op = "snag_symbols" /\ ret.ok
                         THEN [i0 |-> i0, val |-> ret.val] ELSE <<>>]
    /\ UNCHANGED <<src, tpos, pending, stack>>

Finished == Applied("finished", <<>>, P, Ok(finished(P)), -1)

Token == Applied("token", <<>>, P, token(P), -1)

Lookahead == \E d \in 0..MaxDist : Applied("lookahead", d, P, lookahead(P, d), -1)

AtClose == Applied("at_close", <<>>, P, at_close(P), -1)

Advance ==
    /\ i + 1 <= Len(tokens) + MaxOver
    /\ Applied("advance", <<>>, advance(P), Ok(<<>>), -1)

AdvanceBy ==
    \E d \in 0..MaxDist :
        /\ i + d <= Len(tokens) + MaxOver
        /\ Applied("advance_by", d, advance_by(P, d), Ok(<<>>), -1)

\* the tokens check is called with: the delimiters, two words, and the
\* token at each position
CheckTargets ==
    {<<LPAREN>>, <<RPAREN>>, <<"a">>, <<"b">>} \cup {tokens[k] : k \in 1..Len(tokens)}

Check ==
    \E t \in CheckTargets :
        LET r == check(P, t)
            inOrder == /\ hist.walk >= 0
                       /\ hist.walk < Len(tokens)
                       /\ t = tokens[hist.walk + 1]
        IN  Applied("check", t, r.p, r.res, IF inOrder THEN hist.walk + 1 ELSE -1)

Snag == LET r == snag(P) IN Applied("snag", <<>>, r.p, r.res, -1)

SnagSymbols == LET r == snag_symbols(P) IN Applied("snag_symbols", <<>>, r.p, r.res, -1)

Next ==
    \/ Finished
    \/ Token
    \/ Lookahead
    \/ AtClose
    \/ Advance
    \/ AdvanceBy
    \/ Check
    \/ Snag
    \/ SnagSymbols

Spec == Init /\ [][Next]_vars

-----------------------------------------------------------------------------
(* Claims about the cursor operations *)

MovesOnly == {"advance", "advance_by"}

\* C2 as stated: after any sequence of public cursor operations the
\* position is in 0..(number of tokens) and has not decreased.
C2_PositionInRange ==
    /\ 0 <= i
    /\ i <= Len(tokens)
    /\ i0 <= i

\* C2 amended: the position never decreases and never falls below 0; every
\* operation other than advance and advance_by leaves it within the token
\* count if it was within it before (advance and advance_by move it
\* unconditionally, also past the end).
C2_PositionMonotone ==
    /\ 0 <= i
    /\ i0 <= i
    /\ (op \notin MovesOnly /\ i0 <= Len(tokens)) => i <= Len(tokens)

\* snag_symbols ran into the end of the tokens after consuming a group's
\* opening delimiter and a symbol: the position moved, and stayed in range
C2_Witness ==
    /\ op = "snag_symbols"
    /\ ~ret.ok
    /\ i0 = 0
    /\ i = Len(tokens)
    /\ i >= 2

\* the 1-based place of the first ')' after the 1-based place k, 0 if none
FirstCloseAfter(toks, k) ==
    LET cs == {c \in (k + 1)..Len(toks) : toks[c] = <<RPAREN>>}
    IN  IF cs = {} THEN 0 ELSE CHOOSE c \in cs : \A d \in cs : c <= d

\* the current token at position pos is '(' and some ')' follows it
AtFlatGroup(toks, pos) ==
    /\ pos < Len(toks)
    /\ toks[pos + 1] = <<LPAREN>>
    /\ FirstCloseAfter(toks, pos + 1) # 0

\* the tokens strictly between the '(' at position pos and the first ')' after it
FlatGroupContents(toks, pos) == SubSeq(toks, pos + 2, FirstCloseAfter(toks, pos + 1) - 1)

\* C8: snag_symbols called at a '(' that some ')' follows returns exactly
\* the tokens strictly between that '(' and the first ')' after it, nested
\* '(' included, and leaves the position right after that ')'; a second call
\* right after a first one returns the next group's contents.
C8_SnagSymbolsFlat ==
    (op = "snag_symbols" /\ AtFlatGroup(tokens, i0)) =>
        /\ ret = Ok(FlatGroupContents(tokens, i0))
        /\ i = FirstCloseAfter(tokens, i0 + 1)
        /\ hist.prev # <<>> =>
              /\ AtFlatGroup(tokens, hist.prev.i0)
              /\ hist.prev.val = FlatGroupContents(tokens, hist.prev.i0)
              /\ i0 = FirstCloseAfter(tokens, hist.prev.i0 + 1)

\* a group with a nested '(' among its tokens, returned as a symbol
C8_Witness ==
    /\ op = "snag_symbols"
    /\ tokens = << <<"(">>, <<"(">>, <<"a">>, <<")">> >>
    /\ i0 = 0
    /\ ret = Ok(<< <<"(">>, <<"a">> >>)
    /\ i = 4

\* C8, two calls in a row on adjacent flat groups
C8_WitnessTwoCalls ==
    /\ op = "snag_symbols"
    /\ ret.ok
    /\ hist.prev # <<>>
    /\ hist.prev.i0 = 0
    /\ i = Len(tokens)

\* C9: check(t) succeeds and advances by exactly 1 if the current token is
\* t; fails with UnexpectedToken (t, the current token, the position) if it
\* is another token; fails with OutOfRange if there is no current token; a
\* failure leaves the position unchanged.  Checking the tokens in textual
\* order from a fresh cursor succeeds each time and ends finished.
C9_CheckContract ==
    op = "check" =>
        /\ (i0 < Len(tokens) /\ tokens[i0 + 1] = arg) => (ret = Ok(<<>>) /\ i = i0 + 1)
        /\ (i0 < Len(tokens) /\ tokens[i0 + 1] # arg) =>
              (ret = UnexpectedToken(arg, tokens[i0 + 1], i0) /\ i = i0)
        /\ i0 >= Len(tokens) => (ret = OutOfRange(i0, Len(tokens)) /\ i = i0)
        /\ hist.walk >= 0 =>
              /\ ret = Ok(<<>>)
              /\ i = hist.walk
              /\ hist.walk = Len(tokens) => finished(P)

\* a whole token sequence checked in textual order
C9_Witness ==
    /\ op = "check"
    /\ hist.walk = Len(tokens)
    /\ Len(tokens) >= 3
    /\ finished(P)

\* C9: a mismatch and an exhausted cursor both occur
C9_WitnessMismatch ==
    /\ op = "check"
    /\ i0 < Len(tokens)
    /\ ret = UnexpectedToken(<<RPAREN>>, <<"a">>, 1)

-----------------------------------------------------------------------------
(* SexprTree *)

\* SexprTree::Sym
Sym(s) == [t |-> "Sym", s |-> s]

\* SexprTree::Sub
Sub(v) == [t |-> "Sub", v |-> v]

RECURSIVE flatten_help(_, _)
RECURSIVE flatten_each(_, _, _)
\* v.iter().for_each(|s| s.flatten_help(flattened)), from child k on
flatten_each(v, k, flattened) ==
    IF k > Len(v) THEN flattened
    ELSE flatten_each(v, k + 1, flatten_help(v[k], flattened))

\* a mutant of flatten_help: a nested group contributes nothing
flatten_help_shallow(tree, flattened) ==
    IF tree.t = "Sym" THEN Append(flattened, tree.s)
    ELSE LET syms == SelectSeq(tree.v, LAMBDA c : c.t = "Sym")
         IN  flattened \o [k \in 1..Len(syms) |-> syms[k].s]

\* SexprTree::flatten_help: the vector after the call
flatten_help(tree, flattened) ==
    IF tree.t = "Sym" THEN Append(flattened, tree.s)
    ELSE flatten_each(tree.v, 1, flattened)

\* SexprTree::flatten
flatten(tree) == flatten_help(tree, <<>>)

RECURSIVE head(_)
\* SexprTree::head; None is <<>>, Some(s) is <<s>>
head(tree) ==
    IF tree.t = "Sym" THEN <<tree.s>>
    ELSE IF Len(tree.v) = 0 THEN <<>> ELSE head(tree.v[1])

\* SexprTree::is
is(tree, target) == IF tree.t = "Sub" THEN FALSE ELSE tree.s = target

-----------------------------------------------------------------------------
(* The tree builder *)

RECURSIVE tree_help(_)
RECURSIVE tree_help_group(_, _)

\* a mutant of the group loop: running out of tokens ends the group
tree_help_group_partial(p, parts) ==
    LET c == at_close(p)
    IN  IF ~c.ok THEN [p |-> p, res |-> Ok(Sub(parts))]
        ELSE IF ~c.val
        THEN LET r == tree_help(p)
             IN  IF ~r.res.ok THEN r
                 ELSE tree_help_group(r.p, Append(parts, r.res.val))
        ELSE [p |-> advance(p), res |-> Ok(Sub(parts))]

\* tree_help, lines 104-108: the while loop over the parts of a group, the
\* advance past ')' and the return of the group
tree_help_group(p, parts) ==
    LET c == at_close(p)
    IN  IF ~c.ok THEN [p |-> p, res |-> c]
        ELSE IF ~c.val
        THEN LET r == tree_help(p)
             IN  IF ~r.res.ok THEN r
                 ELSE tree_help_group(r.p, Append(parts, r.res.val))
        ELSE [p |-> advance(p), res |-> Ok(Sub(parts))]

\* Parser::tree_help
tree_help(p) ==
    IF finished(p) THEN [p |-> p, res |-> Ok(Sub(<<>>))]
    ELSE LET t == token(p)
         IN  IF ~t.ok THEN [p |-> p, res |-> t]
             ELSE IF t.val = <<LPAREN>> THEN tree_help_group(advance(p), <<>>)
             ELSE LET s == snag(p)
                  IN  IF ~s.res.ok THEN s ELSE [p |-> s.p, res |-> Ok(Sym(s.res.val))]

\* Parser::build_parse_tree: the local parser when it returns, and the result
build_parse_tree(text) == tree_help(Parser_new(text))

-----------------------------------------------------------------------------
(* SpecFn: build_parse_tree on an input text, then on the same text with   *)
(* whitespace added at a token boundary, or on the re-serialized tree.     *)
(* hist is what build_parse_tree returned on the text before.              *)

InitFn ==
    /\ src \in Inputs
    /\ tpos = 0
    /\ pending = <<>>
    /\ tokens = <<>>
    /\ i = 0
    /\ op = "input"
    /\ arg = <<>>
    /\ ret = NoRet
    /\ i0 = 0
    /\ hist = NoRet
    /\ stack = <<>>

\* build_parse_tree(text) is called; tokens and i are its local parser's
Called(name, text, before) ==
    LET r == build_parse_tree(text)
    IN  /\ src' = text
        /\ tokens' = r.p.tokens
        /\ i' = r.p.i
        /\ ret' = r.res
        /\ op' = name
        /\ hist' = before
        /\ UNCHANGED <<tpos, pending, arg, i0, stack>>

BuildParseTree ==
    /\ op = "input"
    /\ Called("build_parse_tree", src, NoRet)

\* place k (between text[k] and text[k + 1]) is not inside a token
AtTokenBoundary(text, k) ==
    IF k = 0 \/ k = Len(text) THEN TRUE
    ELSE ~(IsWordChar(text[k]) /\ IsWordChar(text[k + 1]))

InsertAt(text, k, c) == SubSeq(text, 1, k) \o <<c>> \o SubSeq(text, k + 1, Len(text))

\* the text with one more whitespace character at a token boundary is parsed
ParseWithWhitespace ==
    /\ op # "input"
    /\ Len(src) < MaxLen
    /\ \E k \in 0..Len(src), w \in {" ", "\t"} :
          /\ AtTokenBoundary(src, k)
          /\ Called("whitespace", InsertAt(src, k, w), ret)

RECURSIVE Serialize(_)
RECURSIVE SerializeEach(_, _)
\* the children from child k on, each after the first preceded by one space
SerializeEach(v, k) ==
    IF k > Len(v) THEN <<>>
    ELSE (IF k = 1 THEN <<>> ELSE <<" ">>) \o Serialize(v[k]) \o SerializeEach(v, k + 1)

\* a Symbol as its text, a Group as '(' children separated by spaces ')'
Serialize(tree) ==
    IF tree.t = "Sym" THEN tree.s
    ELSE <<LPAREN>> \o SerializeEach(tree.v, 1) \o <<RPAREN>>

\* a Group that build_parse_tree returned is serialized and parsed again
ParseSerialized ==
    /\ op # "input"
    /\ ret.ok
    /\ ret.val.t = "Sub"
    /\ Called("reserialize", Serialize(ret.val), ret)

NextFn == BuildParseTree \/ ParseWithWhitespace \/ ParseSerialized

SpecFn == InitFn /\ [][NextFn]_vars

-----------------------------------------------------------------------------
(* Claims about build_parse_tree *)

\* the tokens without the '(' and ')' tokens
FilterDelims(toks) == SelectSeq(toks, LAMBDA t : t # <<LPAREN>> /\ t # <<RPAREN>>)

\* the number of '(' minus the number of ')' among the first k tokens
Depth(toks, k) ==
    Cardinality({j \in 1..k : toks[j] = <<LPAREN>>})
        - Cardinality({j \in 1..k : toks[j] = <<RPAREN>>})

\* some ')' has no matching earlier '('
HasUnmatchedClose(toks) == \E k \in 1..Len(toks) : Depth(toks, k) < 0

\* the first token is '(' and the group it opens is not closed by any token
NeverClosed(toks) ==
    /\ Len(toks) > 0
    /\ toks[1] = <<LPAREN>>
    /\ \A k \in 1..Len(toks) : Depth(toks, k) >= 1

\* the tokens are one complete form: nothing, one symbol, or one balanced
\* group closed by the last token
OneForm(toks) ==
    \/ Len(toks) = 0
    \/ Len(toks) = 1 /\ toks[1] \notin {<<LPAREN>>, <<RPAREN>>}
    \/ /\ Len(toks) > 1
       /\ toks[1] = <<LPAREN>>
       /\ Depth(toks, Len(toks)) = 0
       /\ \A k \in 1..(Len(toks) - 1) : Depth(toks, k) >= 1

\* the tokens of the first top-level form: the first token if it is not '(',
\* else the tokens up to the ')' that closes the group the first token opens
FirstForm(toks) ==
    IF Len(toks) = 0 THEN <<>>
    ELSE IF toks[1] # <<LPAREN>> THEN <<toks[1]>>
    ELSE LET ends == {k \in 1..Len(toks) : Depth(toks, k) = 0}
         IN  IF ends = {} THEN toks
             ELSE SubSeq(toks, 1, CHOOSE k \in ends : \A j \in ends : k <= j)

\* the symbols of the first top-level form: its tokens without the
\* delimiters of its groups
FirstFormSymbols(toks) ==
    IF Len(toks) > 0 /\ toks[1] # <<LPAREN>> THEN <<toks[1]>>
    ELSE FilterDelims(FirstForm(toks))

Parsed == op # "input"

C1_WitnessNested ==
    /\ op = "build_parse_tree"
    /\ src = <<"(", "(", "B", ")", ")">>
    /\ ret = Ok(Sub(<<Sub(<<Sym(<<"b">>)>>)>>))
    /\ flatten(ret.val) = << <<"b">> >>

\* C1: tokens after the first form are left out
C1_WitnessTrailing ==
    /\ op = "build_parse_tree"
    /\ ret = Ok(Sym(<<"a">>))
    /\ Len(tokens) = 2
    /\ flatten(ret.val) = << <<"a">> >>

\* C3: if the first token is '(' and the group it opens is never closed,
\* build_parse_tree returns the lookahead error for the index equal to the
\* token count, and no tree.
C3_UnclosedIsOutOfRange ==
    (Parsed /\ NeverClosed(tokens)) =>
        /\ ~ret.ok
        /\ ret = OutOfRange(Len(tokens), Len(tokens))

\* an unclosed group inside an unclosed group, after a closed one
C3_Witness ==
    /\ op = "build_parse_tree"
    /\ tokens = << <<"(">>, <<"(">>, <<")">>, <<"(">>, <<"a">> >>
    /\ ret = OutOfRange(5, 5)

\* C4: if some ')' has no matching earlier '(', build_parse_tree fails with
\* the OutOfRange error and returns no tree.
C4_UnmatchedCloseIsError ==
    (Parsed /\ HasUnmatchedClose(tokens)) =>
        /\ ~ret.ok
        /\ ret.err.kind = "OutOfRange"

\* C6: build_parse_tree on a text with whitespace added at a token boundary
\* returns what it returned on the text without it (the same tree, or the
\* same failure).
C6_WhitespaceInsensitive == op = "whitespace" => ret = hist

\* whitespace added between the delimiter and the symbol of a parsed group
C6_Witness ==
    /\ op = "whitespace"
    /\ src = <<"(", "\t", "a", " ", ")">>
    /\ hist = Ok(Sub(<<Sym(<<"a">>)>>))
    /\ ret = hist

\* C6: a failure stays the same failure
C6_WitnessFailure ==
    /\ op = "whitespace"
    /\ ~hist.ok
    /\ ret = hist
    /\ Len(tokens) >= 2

\* C7: a Group returned by build_parse_tree, serialized with single spaces
\* between children and parsed again, gives a tree equal to it.
C7_RoundTrip ==
    op = "reserialize" =>
        /\ hist.ok
        /\ hist.val.t = "Sub"
        /\ src = Serialize(hist.val)
        /\ ret = hist

\* a group of a symbol folded to lower case and a nested group
C7_Witness ==
    /\ op = "reserialize"
    /\ hist = Ok(Sub(<<Sym(<<"b">>), Sub(<<>>)>>))
    /\ src = <<"(", "b", " ", "(", ")", ")">>
    /\ ret = hist

-----------------------------------------------------------------------------
(* SpecParse: build_parse_tree step by step.  stack is the call stack of   *)
(* tree_help, one frame per call:                                          *)
(*   pc    "entry": at line 99; "loop": at the loop test of line 104;      *)
(*         "call": in the call of line 105                                 *)
(*   parts the local Vec `parts`                                           *)
(*   start the position when the call began                                *)
(*   iter  the position at the last loop test                              *)
(* ret is the value the last finished call returned.                       *)

Frame(pc, parts, start, iter) == [pc |-> pc, parts |-> parts, start |-> start, iter |-> iter]

Top == stack[Len(stack)]

InitParse ==
    /\ src = <<>>
    /\ tpos = 0
    /\ pending = <<>>
    /\ \E text \in ParseInputs :
          /\ tokens = Parser_new(text).tokens
          /\ i = Parser_new(text).i
    /\ op = "build_parse_tree"
    /\ arg = <<>>
    /\ ret = NoRet
    /\ i0 = 0
    /\ hist = <<>>
    /\ stack = <<Frame("entry", <<>>, 0, 0)>>

\* the top call returns r, the parser being p
Return(p, r) ==
    /\ i' = p.i
    /\ ret' = r
    /\ stack' = SubSeq(stack, 1, Len(stack) - 1)
    /\ op' = IF Len(stack) = 1 THEN "done" ELSE "tree_help"

\* the top call goes on at pc
Goto(p, pc, parts, iter) ==
    /\ i' = p.i
    /\ ret' = NoRet
    /\ stack' = [stack EXCEPT ![Len(stack)] = Frame(pc, parts, Top.start, iter)]
    /\ op' = "tree_help"

\* tree_help from its entry: lines 99-103 and 109-111
HelpEntry ==
    /\ stack # <<>>
    /\ Top.pc = "entry"
    /\ IF finished(P) THEN Return(P, Ok(Sub(<<>>)))
       ELSE LET t == token(P)
                s == snag(P)
            IN  IF ~t.ok THEN Return(P, t)
                ELSE IF t.val = <<LPAREN>> THEN Goto(advance(P), "loop", <<>>, 0)
                ELSE IF ~s.res.ok THEN Return(s.p, s.res)
                ELSE Return(s.p, Ok(Sym(s.res.val)))
    /\ UNCHANGED <<src, tpos, pending, tokens, arg, i0, hist>>

\* the loop test of line 104: leave with an error, leave the loop and return
\* the group (lines 107-108), or call tree_help for the next part (line 105)
HelpLoop ==
    /\ stack # <<>>
    /\ Top.pc = "loop"
    /\ LET c == at_close(P)
       IN  IF ~c.ok THEN Return(P, c)
           ELSE IF c.val THEN Return(advance(P), Ok(Sub(Top.parts)))
           ELSE /\ stack' = Append([stack EXCEPT ![Len(stack)] =
                                        Frame("call", Top.parts, Top.start, i)],
                                   Frame("entry", <<>>, i, 0))
                /\ ret' = NoRet
                /\ op' = "tree_help"
                /\ i' = i
    /\ UNCHANGED <<src, tpos, pending, tokens, arg, i0, hist>>

\* the call of line 105 has returned: `?` returns its error, else the tree
\* is pushed on parts and the loop goes on
HelpResume ==
    /\ stack # <<>>
    /\ Top.pc = "call"
    /\ IF ~ret.ok THEN Return(P, ret)
       ELSE Goto(P, "loop", Append(Top.parts, ret.val), Top.iter)
    /\ UNCHANGED <<src, tpos, pending, tokens, arg, i0, hist>>

NextParse == HelpEntry \/ HelpLoop \/ HelpResume

SpecParse == InitParse /\ [][NextParse]_vars /\ WF_vars(NextParse)

\* build_parse_tree has returned
ParseDone == op = "done"

\* the step-wise parse returns what tree_help returns, at the same position
StepwiseAgrees ==
    ParseDone =>
        LET r == tree_help([tokens |-> tokens, i |-> 0])
        IN  ret = r.res /\ i = r.p.i

\* during the parse the position is within the token count, the top-level
\* call has advanced if it returned a tree for a non-empty token sequence,
\* and each call made for a part of a group (which starts at a token, the
\* loop test having read one) has advanced if it returned a tree
ParseProgress ==
    /\ i <= Len(tokens)
    /\ (ParseDone /\ ret.ok /\ Len(tokens) > 0) => i >= 1
    /\ (stack # <<>> /\ Top.pc = "call" /\ ret.ok) =>
          (Top.iter < Len(tokens) /\ i >= Top.iter + 1)
    /\ \A k \in 1..Len(stack) : stack[k].start <= i /\ stack[k].iter <= i

\* C10: build_parse_tree returns, a tree or an error, on every token
\* sequence; every successful call of tree_help at a token advances the
\* position by at least 1, so every round of the group loop does, and the
\* position never exceeds the token count.
C10_Terminates == <>ParseDone /\ []ParseProgress /\ [](ParseDone => ret # NoRet)

\* a parse that went two groups deep and returned a tree
C10_Witness ==
    /\ ParseDone
    /\ ret = Ok(Sub(<<Sub(<<Sym(<<"a">>)>>), Sym(<<"b">>)>>))
    /\ i = Len(tokens)

=============================================================================
